---------------------------- MODULE Spec2Model ----------------------------
(***************************************************************************)
(* Model of the ForensicsApp session server ("Dexter"): voice commands,    *)
(* per-user streaming state, the timed capture loop, the photo ingestion   *)
(* pipeline (blob storage + mentra_scenes table) and the webview queries.  *)
(*                                                                         *)
(* Text is a tuple of one-character strings, so that the regular           *)
(* expressions of util/constants.ts are matched character by character.    *)
(***************************************************************************)
EXTENDS Integers, Sequences, FiniteSets, TLC

(***************************************************************************)
(* Characters and strings                                                  *)
(***************************************************************************)
UpperCase == <<"A","B","C","D","E","F","G","H","I","J","K","L","M",
               "N","O","P","Q","R","S","T","U","V","W","X","Y","Z">>
LowerCase == <<"a","b","c","d","e","f","g","h","i","j","k","l","m",
               "n","o","p","q","r","s","t","u","v","w","x","y","z">>
Digits == {"0","1","2","3","4","5","6","7","8","9"}

\* \s of a JavaScript regular expression (the characters the inputs use)
IsSpace(c) == c \in {" ", "\t", "\n"}

\* \w of a JavaScript regular expression: [A-Za-z0-9_]
IsWord(c) ==
    \/ \E i \in 1..26 : c = UpperCase[i] \/ c = LowerCase[i]
    \/ c \in Digits
    \/ c = "_"

\* String.prototype.toLowerCase, one character
LowerChar(c) ==
    IF \E i \in 1..26 : c = UpperCase[i]
    THEN LowerCase[CHOOSE i \in 1..26 : c = UpperCase[i]]
    ELSE c

ToLowerCase(t) == [i \in 1..Len(t) |-> LowerChar(t[i])]

SetMax(S) == CHOOSE x \in S : \A y \in S : y <= x
SetMin(S) == CHOOSE x \in S : \A y \in S : x <= y

\* .replace(/[^\w\s]/g, '')
KeptByStrip(c) == IsWord(c) \/ IsSpace(c)
StripPunctuation(t) == SelectSeq(t, KeptByStrip)

\* .replace(/\s+/g, r): every maximal run of whitespace becomes r (the last
\* character of the run is the one written as r, the others are dropped)
Written(c) == c # ""
ReplaceSpaceRuns(t, r) ==
    LET mark == [i \in 1..Len(t) |->
                   IF ~IsSpace(t[i]) THEN t[i]
                   ELSE IF i < Len(t) /\ IsSpace(t[i + 1]) THEN "" ELSE r]
    IN  SelectSeq(mark, Written)

\* String.prototype.trim
TrimLeft(t) ==
    LET ink == {i \in 1..Len(t) : ~IsSpace(t[i])}
    IN  IF ink = {} THEN <<>> ELSE SubSeq(t, SetMin(ink), Len(t))

TrimRight(t) ==
    LET ink == {i \in 1..Len(t) : ~IsSpace(t[i])}
    IN  IF ink = {} THEN <<>> ELSE SubSeq(t, 1, SetMax(ink))

Trim(t) == TrimRight(TrimLeft(t))

\* data.text.toLowerCase().replace(/[^\w\s]/g,'').replace(/\s+/g,' ').trim()
NormalizeTranscript(text) ==
    Trim(ReplaceSpaceRuns(StripPunctuation(ToLowerCase(text)), " "))

\* the characters of a tuple as one string
RECURSIVE Str(_)
Str(t) == IF t = <<>> THEN "" ELSE Head(t) \o Str(Tail(t))

(***************************************************************************)
(* Regular expressions of util/constants.ts.  A pattern is the sequence of *)
(* its tokens; a position is the index of the next character to match.     *)
(* The result is the one a backtracking JavaScript engine finds: a greedy  *)
(* quantifier takes the longest run for which the rest of the pattern      *)
(* still matches, and the search takes the leftmost start.                 *)
(***************************************************************************)
Chars(w) == [k |-> "lit", w |-> w]
Many(cls, min) == [k |-> "rep", cls |-> cls, min |-> min]
DotStar == Many("dot", 0)            \* .*
DotPlus == Many("dot", 1)            \* .+
SpacePlus == Many("space", 1)        \* \s+
NotFORPlus == Many("notfor", 1)      \* [^for]+
Open == [k |-> "open"]               \* (
Close == [k |-> "close"]             \* )

\* /dexter.*start.*recording.*for.*scene\s+([^for]+).*for.*object\s+(.+)/i
START_RECORDING_REGEX ==
    << Chars(<<"d","e","x","t","e","r">>), DotStar,
       Chars(<<"s","t","a","r","t">>), DotStar,
       Chars(<<"r","e","c","o","r","d","i","n","g">>), DotStar,
       Chars(<<"f","o","r">>), DotStar,
       Chars(<<"s","c","e","n","e">>), SpacePlus,
       Open, NotFORPlus, Close, DotStar,
       Chars(<<"f","o","r">>), DotStar,
       Chars(<<"o","b","j","e","c","t">>), SpacePlus,
       Open, DotPlus, Close >>

\* /dexter.*stop.*recording/i
STOP_RECORDING_REGEX ==
    << Chars(<<"d","e","x","t","e","r">>), DotStar,
       Chars(<<"s","t","o","p">>), DotStar,
       Chars(<<"r","e","c","o","r","d","i","n","g">>) >>

\* the literal w matches t at position p (the i flag: compared in lower case)
Lit(t, p, w) ==
    /\ p + Len(w) - 1 <= Len(t)
    /\ \A i \in 1..Len(w) : LowerChar(t[p + i - 1]) = w[i]

\* the character classes: `.` is every character but \n, [^for] under the i
\* flag excludes f, o, r in both cases
InClass(cls, c) ==
    CASE cls = "dot" -> c # "\n"
      [] cls = "space" -> IsSpace(c)
      [] cls = "notfor" -> LowerChar(c) \notin {"f", "o", "r"}

\* the positions of t whose character does not belong to the class
Stops(t, cls) == {i \in 1..Len(t) : ~InClass(cls, t[i])}

\* the positions that end a run of the token's class (none for other tokens)
StopsOf(tok, t) == IF tok.k = "rep" THEN Stops(t, tok.cls) ELSE {}

\* how many characters from position p on belong to the class, stops being
\* the positions whose character does not
Run(t, p, stops) ==
    LET ahead == {i \in stops : i >= p}
    IN  (IF ahead = {} THEN Len(t) + 1 ELSE SetMin(ahead)) - p

\* where the token can end when it starts at position p
Ends(tok, t, p, stops) ==
    CASE tok.k = "lit" -> IF Lit(t, p, tok.w) THEN {p + Len(tok.w)} ELSE {}
      [] tok.k \in {"open", "close"} -> {p}
      [] tok.k = "rep" -> {p + n : n \in tok.min..Run(t, p, stops)}

\* the positions from which token i ends in a position of rest
Pre(re, t, i, rest) ==
    LET stops == StopsOf(re[i], t)
    IN  {p \in 1..(Len(t) + 1) : Ends(re[i], t, p, stops) \cap rest # {}}

\* for k in i..j, the positions from which tokens k.. of the pattern match,
\* rest being those positions for token j + 1; the range is halved so that
\* the later half is known before the earlier half is looked at
RECURSIVE Suffixes(_, _, _, _, _)
Suffixes(re, t, i, j, rest) ==
    IF i = j THEN <<Pre(re, t, i, rest)>>
    ELSE LET m == (i + j) \div 2
             later == Suffixes(re, t, m + 1, j, rest)
         IN  IF later[1] = {} THEN [k \in 1..(m - i + 1) |-> {}] \o later
             ELSE Suffixes(re, t, i, m, later[1]) \o later

\* the end the engine settles on for token i started at p: a greedy quantifier
\* takes the longest run after which the rest still matches (0: there is none)
Pick(re, t, i, p, rest) ==
    LET ends == Ends(re[i], t, p, StopsOf(re[i], t)) \cap rest
    IN  IF ends = {} THEN 0 ELSE SetMax(ends)

\* the ends the engine settles on for tokens i..j, token i started at p;
\* s[k] are the positions from which tokens k.. match
RECURSIVE Path(_, _, _, _, _, _)
Path(re, t, i, j, p, s) ==
    IF i = j THEN <<Pick(re, t, i, p, s[i + 1])>>
    ELSE LET m == (i + j) \div 2
             earlier == Path(re, t, i, m, p, s)
         IN  IF earlier[Len(earlier)] = 0 THEN earlier
             ELSE earlier \o Path(re, t, m + 1, j, earlier[Len(earlier)], s)

\* t.match(re): <<>> for null, else <<the groups>>; the search takes the
\* leftmost position from which the whole pattern matches
Match(re, t) ==
    LET all == 1..(Len(t) + 1)
        s == Suffixes(re, t, 1, Len(re), all) \o <<all>>
    IN  IF s[1] = {} THEN <<>>
        ELSE LET at == <<SetMin(s[1])>>
                           \o Path(re, t, 1, Len(re), SetMin(s[1]), s)
                 opens == {i \in 1..Len(re) : re[i].k = "open"}
                 closes == {i \in 1..Len(re) : re[i].k = "close"}
                 nth(set, g) ==
                     CHOOSE i \in set : Cardinality({k \in set : k <= i}) = g
             IN  IF at[Len(at)] = 0 THEN <<>>
                 ELSE <<[g \in 1..Cardinality(opens) |->
                          SubSeq(t, at[nth(opens, g)], at[nth(closes, g)] - 1)]>>

\* t.match(START_RECORDING_REGEX): <<>> for null, else <<group 1, group 2>>
StartRecordingMatch(t) ==
    LET m == Match(START_RECORDING_REGEX, t)
    IN  IF m = <<>> THEN <<>> ELSE m[1]

\* t.match(STOP_RECORDING_REGEX) is not null
StopRecordingMatch(t) == Match(STOP_RECORDING_REGEX, t) # <<>>

\* startMatch[i].trim().replace(/\s+/g, '_').toLowerCase()
LabelOf(group) == Str(ToLowerCase(ReplaceSpaceRuns(Trim(group), "_")))

\* the command a final transcription is taken for
Interpret(text) ==
    LET t == NormalizeTranscript(text)
        m == StartRecordingMatch(t)
    IN  IF StopRecordingMatch(t) THEN [kind |-> "stop"]
        ELSE IF m # <<>>
             THEN [kind |-> "start", scene |-> LabelOf(m[1]),
                   object |-> LabelOf(m[2])]
             ELSE [kind |-> "none"]

(***************************************************************************)
(* Inputs: users, utterances, photos                                       *)
(***************************************************************************)
Users == {"u1", "u2"}
NoUser == "anonymous"          \* a request whose authUserId is undefined

WLab == <<"l","a","b">>
WDen == <<"d","e","n">>
WB2 == <<"b","2">>
WRoom == <<"r","o","o","m">>
WFloor == <<"f","l","o","o","r">>
WKnife == <<"k","n","i","f","e">>
WCup == <<"c","u","p">>
WBig == <<"b","i","g">>

\* the words of ws separated by sep
RECURSIVE Join(_, _)
Join(ws, sep) ==
    IF ws = <<>> THEN <<>>
    ELSE IF Len(ws) = 1 THEN Head(ws)
         ELSE Head(ws) \o sep \o Join(Tail(ws), sep)

\* the raw text of an utterance, as the transcription service delivers it
TextOf(utt) ==
    CASE utt.kind = "start" /\ utt.filler = 0 ->
           <<"d","e","x","t","e","r"," ","s","t","a","r","t"," ",
             "r","e","c","o","r","d","i","n","g"," ","f","o","r"," ",
             "s","c","e","n","e"," ">> \o Join(utt.scene, <<" ">>)
           \o <<" ","f","o","r"," ","o","b","j","e","c","t"," ">>
           \o Join(utt.object, <<" ">>)
      [] utt.kind = "start" /\ utt.filler # 0 ->
           <<"D","e","x","t","e","r",","," ","p","l","e","a","s","e"," ",
             "s","t","a","r","t"," ","t","h","e"," ",
             "R","e","c","o","r","d","i","n","g"," ","f","o","r"," ",
             "t","h","e"," ","s","c","e","n","e"," "," ">>
           \o Join(utt.scene, <<" ">>)
           \o <<" ","f","o","r"," ","t","h","e"," ",
                "o","b","j","e","c","t"," ">>
           \o Join(utt.object, <<" "," ">>) \o <<".">>
      [] utt.kind = "stop" ->
           <<"D","e","x","t","e","r",","," ","s","t","o","p"," ",
             "r","e","c","o","r","d","i","n","g",".">>
      [] OTHER -> <<"h","i"," ","d","e","x","t","e","r">>

StartUtterance(f, s, o) ==
    [kind |-> "start", filler |-> f, scene |-> s, object |-> o]
StopUtterance == [kind |-> "stop", filler |-> 0, scene |-> <<>>, object |-> <<>>]
OtherUtterance == [kind |-> "other", filler |-> 0, scene |-> <<>>, object |-> <<>>]

\* what the users say in the main specification
Utterances ==
    { StartUtterance(0, <<WLab>>, <<WKnife>>),
      StartUtterance(1, <<WDen>>, <<WCup>>),
      StopUtterance, OtherUtterance }

\* names of one or two words of W
Phrases(W) == [1..1 -> W] \cup [1..2 -> W]

SceneWords == {WLab, WB2, WRoom, WFloor}

\* what the user says in SpecInterp: the start grammar, with and without
\* extra words between its anchors
GrammarUtterances ==
    {StartUtterance(f, sc, ob) :
        f \in {0, 1}, sc \in Phrases(SceneWords),
        ob \in {<<WKnife>>, <<WBig, WCup>>}}

\* Interpret, tabulated once for the utterances above: pairs <<utterance,
\* command>>
CommandTable == {<<utt, Interpret(TextOf(utt))>> : utt \in Utterances}
GrammarTable == {<<utt, Interpret(TextOf(utt))>> : utt \in GrammarUtterances}

\* the command the handler takes the utterance for
CommandOf(utt) ==
    IF utt \in Utterances
    THEN (CHOOSE e \in CommandTable : e[1] = utt)[2]
    ELSE IF utt \in GrammarUtterances
         THEN (CHOOSE e \in GrammarTable : e[1] = utt)[2]
         ELSE Interpret(TextOf(utt))

RequestIds == {"r1", "r2"}
MimeTypes == {"image/jpeg", "image/png"}

PollInterval == 1000      \* ms between two runs of the capture loop
FallbackDelay == 30000    \* ms the loop waits after a capture that failed

(***************************************************************************)
(* State                                                                   *)
(***************************************************************************)
VARIABLES
    now,                \* Date.now()
    isStreamingPhotos,  \* Map userId -> boolean
    nextPhotoTime,      \* Map userId -> ms
    recordingSetup,     \* Map userId -> {scene, object, step}
    active,             \* users whose session is open (onSession .. onStop)
    timers,             \* userId -> setInterval timers created for the user
    starting,           \* start-recording handlers awaiting ensureSceneFolder
    camera,             \* requestPhoto() calls awaiting the device
    uploads,            \* cachePhoto runs awaiting storage or the table
    storage,            \* the bucket: path -> {bytes, contentType}
    table,              \* rows of mentra_scenes, in insertion order
    fetching,           \* /api/photo handlers awaiting the download
    captures,           \* requestPhoto() calls issued so far
    lastTimed,          \* history: userId -> time of the user's last timed
                        \* request if the user has been streaming ever since
                        \* and no timed capture has succeeded since, else 0
    ev                  \* the handler that ran last: its calls and its answer

vars == <<now, isStreamingPhotos, nextPhotoTime, recordingSetup, active,
          timers, starting, camera, uploads, storage, table, fetching,
          captures, lastTimed, ev>>

session == <<isStreamingPhotos, nextPhotoTime, recordingSetup>>

\* Map.set, Map.delete, Map.has
Put(m, k, v) == [x \in DOMAIN m \cup {k} |-> IF x = k THEN v ELSE m[x]]
Del(m, k) == [x \in DOMAIN m \ {k} |-> m[x]]
Has(m, k) == k \in DOMAIN m

\* this.isStreamingPhotos.get(userId), taken as a condition
Streaming(u) == Has(isStreamingPhotos, u) /\ isStreamingPhotos[u]

\* this.nextPhotoTime.get(userId) ?? 0
NextPhotoTimeOr0(u) == IF Has(nextPhotoTime, u) THEN nextPhotoTime[u] ELSE 0

NoBytes == [owner |-> "none", n |-> 0]
NoBody == [requestId |-> "", timestamp |-> 0, mimeType |-> "",
           bytes |-> NoBytes]

Event(op, u, arg, calls) ==
    [op |-> op, user |-> u, arg |-> arg, calls |-> calls,
     status |-> 0, body |-> NoBody]
Reply(op, u, calls, status, body) ==
    [op |-> op, user |-> u, arg |-> "", calls |-> calls,
     status |-> status, body |-> body]

Forget(u) == [lastTimed EXCEPT ![u] = 0]

Init ==
    /\ now = PollInterval
    /\ isStreamingPhotos = <<>>
    /\ nextPhotoTime = <<>>
    /\ recordingSetup = <<>>
    /\ active = {}
    /\ timers = [u \in Users |-> 0]
    /\ starting = {}
    /\ camera = {}
    /\ uploads = {}
    /\ storage = <<>>
    /\ table = <<>>
    /\ fetching = {}
    /\ captures = 0
    /\ lastTimed = [u \in Users |-> 0]
    /\ ev = Event("boot", NoUser, "", {})

(***************************************************************************)
(* Session lifecycle                                                       *)
(***************************************************************************)
\* onSession: the initial state of the user, the listeners, the capture loop
OnSession(u) ==
    /\ u \notin active
    /\ isStreamingPhotos' = Put(isStreamingPhotos, u, FALSE)
    /\ nextPhotoTime' = Put(nextPhotoTime, u, now)
    /\ recordingSetup' =
           Put(recordingSetup, u, [scene |-> "", object |-> "", step |-> "idle"])
    /\ active' = active \cup {u}
    /\ timers' = [timers EXCEPT ![u] = @ + 1]
    /\ lastTimed' = Forget(u)
    /\ ev' = Event("onSession", u, "", {})
    /\ UNCHANGED <<now, starting, camera, uploads, storage, table, fetching,
                   captures>>

\* onStop
OnStop(u) ==
    /\ u \in active
    /\ isStreamingPhotos' = Put(isStreamingPhotos, u, FALSE)
    /\ nextPhotoTime' = Del(nextPhotoTime, u)
    /\ recordingSetup' = Del(recordingSetup, u)
    /\ active' = active \ {u}
    /\ lastTimed' = Forget(u)
    /\ ev' = Event("onStop", u, "", {})
    /\ UNCHANGED <<now, timers, starting, camera, uploads, storage, table,
                   fetching, captures>>

(***************************************************************************)
(* Voice commands                                                          *)
(***************************************************************************)
\* mutant of NotRecording: the stop branch without its guard
NotRecordingUnchecked(u) == FALSE

\* if (!this.isStreamingPhotos.get(userId)): stop asked while not recording
NotRecording(u) == ~Streaming(u)

\* mutant of AlreadyRecording: the start branch without its guard
AlreadyRecordingUnchecked(u) == FALSE

\* if (this.isStreamingPhotos.get(userId)): start asked while recording
AlreadyRecording(u) == Streaming(u)

\* `${sceneName}/.folder_placeholder`
SceneFolderPath(sceneName) == sceneName \o "/.folder_placeholder"

\* the stop-recording branch
StopRecording(u) ==
    IF NotRecording(u)
    THEN /\ ev' = Event("onTranscription", u, "stop", {"audio.speak"})
         /\ UNCHANGED <<session, starting, lastTimed>>
    ELSE /\ isStreamingPhotos' = Put(isStreamingPhotos, u, FALSE)
         /\ nextPhotoTime' = Del(nextPhotoTime, u)
         /\ lastTimed' = Forget(u)
         /\ ev' = Event("onTranscription", u, "stop", {"audio.speak"})
         /\ UNCHANGED <<recordingSetup, starting>>

\* the start-recording branch, up to the await inside ensureSceneFolder
StartRecording(u, cmd) ==
    IF AlreadyRecording(u)
    THEN /\ ev' = Event("onTranscription", u, "start", {"audio.speak"})
         /\ UNCHANGED <<session, starting, lastTimed>>
    ELSE /\ starting' = starting \cup
               {[user |-> u, scene |-> cmd.scene, object |-> cmd.object,
                 stage |-> "upload"]}
         /\ ev' = Event("onTranscription", u, "start", {"storage.upload"})
         /\ UNCHANGED <<session, lastTimed>>

\* mutant of OnTranscription: interim fragments are interpreted too
OnTranscriptionAnyFragment(u, utt, isFinal) ==
    /\ u \in active
    /\ LET cmd == CommandOf(utt)
       IN  CASE cmd.kind = "stop" -> StopRecording(u)
             [] cmd.kind = "start" -> StartRecording(u, cmd)
             [] OTHER -> /\ ev' = Event("onTranscription", u, "none", {})
                         /\ UNCHANGED <<session, starting, lastTimed>>
    /\ UNCHANGED <<now, active, timers, camera, uploads, storage, table,
                   fetching, captures>>

\* session.events.onTranscription
OnTranscription(u, utt, isFinal) ==
    /\ u \in active
    /\ LET cmd == CommandOf(utt)
       IN  IF ~isFinal
           THEN /\ ev' = Event("onTranscription", u, "interim", {})
                /\ UNCHANGED <<session, starting, lastTimed>>
           ELSE CASE cmd.kind = "stop" -> StopRecording(u)
                  [] cmd.kind = "start" -> StartRecording(u, cmd)
                  [] OTHER -> /\ ev' = Event("onTranscription", u, "none", {})
                              /\ UNCHANGED <<session, starting, lastTimed>>
    /\ UNCHANGED <<now, active, timers, camera, uploads, storage, table,
                   fetching, captures>>

\* the start-recording branch after `await this.ensureSceneFolder(sceneName)`
ResumeStart(h) ==
    /\ recordingSetup' =
           Put(recordingSetup, h.user,
               [scene |-> h.scene, object |-> h.object, step |-> "ready"])
    /\ isStreamingPhotos' = Put(isStreamingPhotos, h.user, TRUE)
    /\ ev' = Event("startRecording", h.user, "", {"audio.speak"})
    /\ UNCHANGED <<nextPhotoTime, lastTimed>>

\* ensureSceneFolder: the placeholder upload has been answered
SceneFolderUploaded(h, ok) ==
    /\ h \in starting
    /\ h.stage = "upload"
    /\ IF ok
       THEN /\ storage' = Put(storage, SceneFolderPath(h.scene),
                              [bytes |-> NoBytes, contentType |-> "text/plain"])
            /\ starting' = (starting \ {h}) \cup {[h EXCEPT !.stage = "remove"]}
            /\ ev' = Event("ensureSceneFolder", h.user, "", {"storage.remove"})
            /\ UNCHANGED <<session, lastTimed>>
       ELSE /\ ResumeStart(h)
            /\ starting' = starting \ {h}
            /\ UNCHANGED storage
    /\ UNCHANGED <<now, active, timers, camera, uploads, table, fetching,
                   captures>>

\* ensureSceneFolder: the placeholder removal has been answered
SceneFolderRemoved(h, ok) ==
    /\ h \in starting
    /\ h.stage = "remove"
    /\ storage' = IF ok THEN Del(storage, SceneFolderPath(h.scene)) ELSE storage
    /\ ResumeStart(h)
    /\ starting' = starting \ {h}
    /\ UNCHANGED <<now, active, timers, camera, uploads, table, fetching,
                   captures>>

(***************************************************************************)
(* Captures                                                                *)
(***************************************************************************)
\* session.camera.requestPhoto() issued
RequestPhoto(u, timed) ==
    /\ captures' = captures + 1
    /\ camera' = camera \cup {[user |-> u, timed |-> timed, n |-> captures + 1]}

\* mutant of OnButtonPress: a long press switches streaming on
OnButtonPressSwitchesOn(u, pressType) ==
    /\ u \in active
    /\ IF pressType = "long"
       THEN /\ isStreamingPhotos' = Put(isStreamingPhotos, u, TRUE)
            /\ ev' = Event("onButtonPress", u, "long", {})
            /\ UNCHANGED <<camera, captures>>
       ELSE /\ RequestPhoto(u, FALSE)
            /\ ev' = Event("onButtonPress", u, "short", {"camera.requestPhoto"})
            /\ UNCHANGED isStreamingPhotos
    /\ UNCHANGED <<now, nextPhotoTime, recordingSetup, active, timers, starting,
                   uploads, storage, table, fetching, lastTimed>>

\* session.events.onButtonPress
OnButtonPress(u, pressType) ==
    /\ u \in active
    /\ IF pressType = "long"
       THEN /\ isStreamingPhotos' = Put(isStreamingPhotos, u, ~Streaming(u))
            /\ ev' = Event("onButtonPress", u, "long", {})
            /\ UNCHANGED <<camera, captures>>
       ELSE /\ RequestPhoto(u, FALSE)
            /\ ev' = Event("onButtonPress", u, "short", {"camera.requestPhoto"})
            /\ UNCHANGED isStreamingPhotos
    /\ UNCHANGED <<now, nextPhotoTime, recordingSetup, active, timers, starting,
                   uploads, storage, table, fetching, lastTimed>>

\* mutant of ReadyForPhoto: the loop does not look at the next photo time
ReadyForPhotoAnyTime(u) == Streaming(u)

\* mutant of ReadyForPhoto: the loop waits for the request it has issued
ReadyForPhotoIdleCamera(u) ==
    /\ Streaming(u)
    /\ now > NextPhotoTimeOr0(u)
    /\ \A c \in camera : c.user # u

\* the condition of the capture loop
ReadyForPhoto(u) == Streaming(u) /\ now > NextPhotoTimeOr0(u)

\* mutant of FallbackTime: the loop writes no fallback
FallbackTimeNow == now

\* the time the loop writes before it asks for the photo
FallbackTime == now + FallbackDelay

\* one run of the setInterval callback that finds the condition true
TimedCapture(u) ==
    /\ timers[u] > 0
    /\ ReadyForPhoto(u)
    /\ nextPhotoTime' = Put(nextPhotoTime, u, FallbackTime)
    /\ RequestPhoto(u, TRUE)
    /\ lastTimed' = [lastTimed EXCEPT ![u] = now]
    /\ ev' = Event("timedCapture", u, "", {"camera.requestPhoto"})
    /\ UNCHANGED <<now, isStreamingPhotos, recordingSetup, active, timers,
                   starting, uploads, storage, table, fetching>>

\* mutant of SetupMissing: only `!setup` is tested
SetupAbsent(u) == ~Has(recordingSetup, u)

\* const setup = this.recordingSetup.get(userId);
\* if (!setup || !setup.scene || !setup.object)
SetupMissing(u) ==
    \/ ~Has(recordingSetup, u)
    \/ recordingSetup[u].scene = ""
    \/ recordingSetup[u].object = ""

\* mutant of ExtOf: every photo is named .jpg
ExtAlwaysJpg(mimeType) == "jpg"

\* photo.mimeType === 'image/jpeg' ? 'jpg' : 'png'
ExtOf(mimeType) == IF mimeType = "image/jpeg" THEN "jpg" ELSE "png"

\* `${setup.scene}/${setup.object}/${photo.requestId}.${ext}`
ObjectPath(setup, photo) ==
    setup.scene \o "/" \o setup.object \o "/" \o photo.requestId \o "."
        \o ExtOf(photo.mimeType)

\* cachePhoto up to its first await: the uploads in flight afterwards
CachePhoto(photo, u) ==
    IF SetupMissing(u) THEN uploads
    ELSE uploads \cup
           {[userId |-> u, photo |-> photo,
             scene |-> recordingSetup[u].scene,
             object |-> recordingSetup[u].object,
             objectPath |-> ObjectPath(recordingSetup[u], photo),
             stage |-> "upload"]}

\* the PhotoData of request c
PhotoOf(c, requestId, mimeType) ==
    [requestId |-> requestId, mimeType |-> mimeType, timestamp |-> now,
     buffer |-> [owner |-> c.user, n |-> c.n]]

\* mutant of PhotoTaken: the button handler resets the next photo time too
PhotoTakenResets(c, requestId, mimeType) ==
    /\ c \in camera
    /\ camera' = camera \ {c}
    /\ nextPhotoTime' = Put(nextPhotoTime, c.user, now)
    /\ lastTimed' = IF c.timed THEN Forget(c.user) ELSE lastTimed
    /\ uploads' = CachePhoto(PhotoOf(c, requestId, mimeType), c.user)
    /\ ev' = Event("photo", c.user, IF c.timed THEN "timed" ELSE "manual",
                   IF SetupMissing(c.user) THEN {} ELSE {"storage.upload"})
    /\ UNCHANGED <<now, isStreamingPhotos, recordingSetup, active, timers,
                   starting, storage, table, fetching, captures>>

\* requestPhoto() resolved: the rest of the loop body or of the button handler
PhotoTaken(c, requestId, mimeType) ==
    /\ c \in camera
    /\ camera' = camera \ {c}
    /\ nextPhotoTime' =
           IF c.timed THEN Put(nextPhotoTime, c.user, now) ELSE nextPhotoTime
    /\ lastTimed' = IF c.timed THEN Forget(c.user) ELSE lastTimed
    /\ uploads' = CachePhoto(PhotoOf(c, requestId, mimeType), c.user)
    /\ ev' = Event("photo", c.user, IF c.timed THEN "timed" ELSE "manual",
                   IF SetupMissing(c.user) THEN {} ELSE {"storage.upload"})
    /\ UNCHANGED <<now, isStreamingPhotos, recordingSetup, active, timers,
                   starting, storage, table, fetching, captures>>

\* requestPhoto() rejected: the catch block logs it
PhotoFailed(c) ==
    /\ c \in camera
    /\ camera' = camera \ {c}
    /\ ev' = Event("photoError", c.user, IF c.timed THEN "timed" ELSE "manual",
                   {})
    /\ UNCHANGED <<now, session, active, timers, starting, uploads, storage,
                   table, fetching, captures, lastTimed>>

\* mutant of RowOf: scene and object are read from the map again at the insert
RowOfCurrentSetup(i) ==
    [user_id |-> i.userId, request_id |-> i.photo.requestId,
     path |-> i.objectPath, mime_type |-> i.photo.mimeType,
     captured_at |-> i.photo.timestamp,
     scene |-> IF Has(recordingSetup, i.userId)
               THEN recordingSetup[i.userId].scene ELSE "",
     object |-> IF Has(recordingSetup, i.userId)
                THEN recordingSetup[i.userId].object ELSE ""]

\* the row cachePhoto inserts into mentra_scenes
RowOf(i) ==
    [user_id |-> i.userId, request_id |-> i.photo.requestId,
     path |-> i.objectPath, mime_type |-> i.photo.mimeType,
     captured_at |-> i.photo.timestamp, scene |-> i.scene, object |-> i.object]

\* mutant of PhotoUploaded: uploadErr is not looked at
PhotoUploadedUnchecked(i, ok) ==
    /\ i \in uploads
    /\ i.stage = "upload"
    /\ storage' = IF ok THEN Put(storage, i.objectPath,
                                 [bytes |-> i.photo.buffer,
                                  contentType |-> i.photo.mimeType])
                  ELSE storage
    /\ uploads' = (uploads \ {i}) \cup {[i EXCEPT !.stage = "insert"]}
    /\ ev' = Event("uploaded", i.userId, "", {"table.insert"})
    /\ UNCHANGED <<now, session, active, timers, starting, camera, table,
                   fetching, captures, lastTimed>>

\* cachePhoto: storage answered the upload (upsert: true)
PhotoUploaded(i, ok) ==
    /\ i \in uploads
    /\ i.stage = "upload"
    /\ IF ok
       THEN /\ storage' = Put(storage, i.objectPath,
                              [bytes |-> i.photo.buffer,
                               contentType |-> i.photo.mimeType])
            /\ uploads' = (uploads \ {i}) \cup {[i EXCEPT !.stage = "insert"]}
            /\ ev' = Event("uploaded", i.userId, "", {"table.insert"})
       ELSE /\ uploads' = uploads \ {i}
            /\ ev' = Event("uploadError", i.userId, "", {})
            /\ UNCHANGED storage
    /\ UNCHANGED <<now, session, active, timers, starting, camera, table,
                   fetching, captures, lastTimed>>

\* cachePhoto: the table answered the insert
RowInserted(i, ok) ==
    /\ i \in uploads
    /\ i.stage = "insert"
    /\ uploads' = uploads \ {i}
    /\ table' = IF ok THEN Append(table, RowOf(i)) ELSE table
    /\ ev' = Event(IF ok THEN "inserted" ELSE "insertError", i.userId, "", {})
    /\ UNCHANGED <<now, session, active, timers, starting, camera, storage,
                   fetching, captures, lastTimed>>

(***************************************************************************)
(* Webview routes                                                          *)
(***************************************************************************)
\* mutant of NotAuthenticated: the routes without their 401
NotAuthenticatedUnchecked(userId) == FALSE

\* if (!userId) return res.status(401)
NotAuthenticated(userId) == userId = NoUser

\* .eq('user_id', userId)
RowsOf(userId) == {k \in 1..Len(table) : table[k].user_id = userId}

\* mutant of LatestRows: the row inserted last comes first
LastInsertedRows(userId) ==
    {k \in RowsOf(userId) : \A j \in RowsOf(userId) : j <= k}

\* .order('captured_at', {ascending: false}).limit(1): the rows that may come
\* first (the service breaks ties as it likes)
LatestRows(userId) ==
    {k \in RowsOf(userId) :
        \A j \in RowsOf(userId) : table[j].captured_at <= table[k].captured_at}

\* .eq('user_id', userId).eq('request_id', requestId)
RowsById(userId, requestId) ==
    {k \in RowsOf(userId) : table[k].request_id = requestId}

\* GET /api/latest-photo
LatestPhoto(userId, dbOk, signOk) ==
    /\ \/ /\ NotAuthenticated(userId)
          /\ ev' = Reply("latestPhoto", userId, {}, 401, NoBody)
       \/ /\ ~NotAuthenticated(userId)
          /\ ~dbOk
          /\ ev' = Reply("latestPhoto", userId, {"table.select"}, 500, NoBody)
       \/ /\ ~NotAuthenticated(userId)
          /\ dbOk
          /\ LatestRows(userId) = {}
          /\ ev' = Reply("latestPhoto", userId, {"table.select"}, 404, NoBody)
       \/ /\ ~NotAuthenticated(userId)
          /\ dbOk
          /\ \E k \in LatestRows(userId) :
                ev' = IF signOk
                      THEN Reply("latestPhoto", userId,
                                 {"table.select", "storage.createSignedUrl"},
                                 200,
                                 [requestId |-> table[k].request_id,
                                  timestamp |-> table[k].captured_at,
                                  mimeType |-> table[k].mime_type,
                                  bytes |-> NoBytes])
                      ELSE Reply("latestPhoto", userId,
                                 {"table.select", "storage.createSignedUrl"},
                                 500, NoBody)
    /\ UNCHANGED <<now, session, active, timers, starting, camera, uploads,
                   storage, table, fetching, captures, lastTimed>>

\* GET /api/photo/:requestId, up to the await of the download
PhotoById(userId, requestId, dbOk) ==
    /\ \/ /\ NotAuthenticated(userId)
          /\ ev' = Reply("photoById", userId, {}, 401, NoBody)
          /\ UNCHANGED fetching
       \/ /\ ~NotAuthenticated(userId)
          /\ ~dbOk \/ Cardinality(RowsById(userId, requestId)) > 1
          /\ ev' = Reply("photoById", userId, {"table.select"}, 500, NoBody)
          /\ UNCHANGED fetching
       \/ /\ ~NotAuthenticated(userId)
          /\ dbOk
          /\ RowsById(userId, requestId) = {}
          /\ ev' = Reply("photoById", userId, {"table.select"}, 404, NoBody)
          /\ UNCHANGED fetching
       \/ /\ ~NotAuthenticated(userId)
          /\ dbOk
          /\ Cardinality(RowsById(userId, requestId)) = 1
          /\ \E k \in RowsById(userId, requestId) :
                fetching' = fetching \cup
                    {[userId |-> userId, requestId |-> requestId,
                      path |-> table[k].path,
                      mime_type |-> table[k].mime_type]}
          /\ ev' = Event("photoById", userId, "",
                         {"table.select", "storage.download"})
    /\ UNCHANGED <<now, session, active, timers, starting, camera, uploads,
                   storage, table, captures, lastTimed>>

\* GET /api/photo/:requestId: storage answered the download
PhotoDownloaded(f, ok) ==
    /\ f \in fetching
    /\ fetching' = fetching \ {f}
    /\ ev' = IF ok /\ Has(storage, f.path)
             THEN Reply("photoSent", f.userId, {}, 200,
                        [requestId |-> f.requestId, timestamp |-> 0,
                         mimeType |-> f.mime_type,
                         bytes |-> storage[f.path].bytes])
             ELSE Reply("photoSent", f.userId, {}, 500, NoBody)
    /\ UNCHANGED <<now, session, active, timers, starting, camera, uploads,
                   storage, table, captures, lastTimed>>

\* d ms pass
Advance(d) ==
    /\ now' = now + d
    /\ ev' = Event("clock", NoUser, "", {})
    /\ UNCHANGED <<session, active, timers, starting, camera, uploads,
                   storage, table, fetching, captures, lastTimed>>

(***************************************************************************)
(* Specifications.  The bounds of a run are guards of its next-state       *)
(* relation, not of the handlers.                                          *)
(***************************************************************************)
MaxSessions == 1          \* Spec: sessions the user starts
MaxCaptures == 1          \* Spec: camera requests issued
TimedCaptures == 2        \* SpecTimed: camera requests issued
LongTicks == 32           \* SpecTimed: poll intervals the clock runs for
WebCaptures == 2          \* SpecWeb: camera requests issued
LatestCaptures == 2      \* SpecLatest: camera requests issued
LatestTicks == 2          \* SpecLatest: poll intervals the clock runs for
MaxFetches == 1           \* SpecWeb: /api/photo requests in flight at once

\* the user whose glasses are followed in Spec, SpecTimed and SpecInterp
Wearers == {"u1"}

\* request ids as the SDK makes them: one per request
SerialIds == <<"r1", "r2", "r3", "r4", "r5">>
UniqueId(c) == SerialIds[c.n]

\* user u has no start-recording handler waiting for ensureSceneFolder
NotStarting(u) == \A h \in starting : h.user # u

\* a start command is heard only while no earlier one is being handled
OneStart(u, utt) == CommandOf(utt).kind = "start" => NotStarting(u)

ClockBelow(ticks) == now < (ticks + 1) * PollInterval

\* Spec: the handlers of one session user, commands, captures and ingestion,
\* within one poll interval
Next ==
    \/ \E u \in Wearers : timers[u] < MaxSessions /\ OnSession(u)
    \/ \E u \in Wearers : OnStop(u)
    \/ \E u \in Wearers, utt \in Utterances, isFinal \in BOOLEAN :
          OneStart(u, utt) /\ OnTranscription(u, utt, isFinal)
    \/ \E h \in starting, ok \in BOOLEAN : SceneFolderUploaded(h, ok)
    \/ \E h \in starting : SceneFolderRemoved(h, TRUE)
    \/ \E u \in Wearers : OnButtonPress(u, "long")
    \/ \E u \in Wearers : captures < MaxCaptures /\ OnButtonPress(u, "short")
    \/ \E u \in Wearers : captures < MaxCaptures /\ TimedCapture(u)
    \/ \E c \in camera, mimeType \in MimeTypes :
          PhotoTaken(c, UniqueId(c), mimeType)
    \/ \E c \in camera : PhotoFailed(c)
    \/ \E i \in uploads, ok \in BOOLEAN : PhotoUploaded(i, ok)
    \/ \E i \in uploads, ok \in BOOLEAN : RowInserted(i, ok)

Spec == Init /\ [][Next]_vars

\* SpecTimed: the capture loop of one user over a long time
NextTimed ==
    \/ \E u \in Wearers : OnSession(u)
    \/ \E u \in Wearers : OnTranscription(u, StopUtterance, TRUE)
    \/ \E u \in Wearers : OnButtonPress(u, "long")
    \/ \E u \in Wearers : captures < TimedCaptures /\ TimedCapture(u)
    \/ \E c \in camera : PhotoTaken(c, UniqueId(c), "image/jpeg")
    \/ \E c \in camera : PhotoFailed(c)
    \/ \E d \in {PollInterval, FallbackDelay} :
          ClockBelow(LongTicks) /\ now + d <= (LongTicks + 1) * PollInterval
          /\ Advance(d)

SpecTimed == Init /\ [][NextTimed]_vars

\* SpecLoop: SpecTimed with time that passes and an interval timer that
\* fires: setInterval runs the callback every PollInterval for as long as
\* the process lives
Tick ==
    \E d \in {PollInterval, FallbackDelay} :
        ClockBelow(LongTicks) /\ now + d <= (LongTicks + 1) * PollInterval
        /\ Advance(d)

LoopRuns(u) == captures < TimedCaptures /\ TimedCapture(u)

SpecLoop ==
    /\ Init /\ [][NextTimed]_vars
    /\ WF_vars(Tick)
    /\ \A u \in Wearers : WF_vars(LoopRuns(u))

\* SpecStarts: one user gives start commands that overlap: a second one is
\* heard while the first awaits ensureSceneFolder
MaxStarts == 2            \* SpecStarts: start handlers in flight at once

NextStarts ==
    \/ \E u \in Wearers : timers[u] < MaxSessions /\ OnSession(u)
    \/ \E u \in Wearers : OnStop(u)
    \/ \E u \in Wearers, utt \in Utterances :
          /\ CommandOf(utt).kind = "start" => Cardinality(starting) < MaxStarts
          /\ OnTranscription(u, utt, TRUE)
    \/ \E h \in starting, ok \in BOOLEAN : SceneFolderUploaded(h, ok)
    \/ \E h \in starting, ok \in BOOLEAN : SceneFolderRemoved(h, ok)

SpecStarts == Init /\ [][NextStarts]_vars

\* SpecWeb: two users record the same scene and object, and the webview asks
\* for photos by request id
NextWeb ==
    \/ \E u \in Users : OnSession(u)
    \/ \E u \in Users :
          OneStart(u, StartUtterance(0, <<WLab>>, <<WKnife>>))
          /\ OnTranscription(u, StartUtterance(0, <<WLab>>, <<WKnife>>), TRUE)
    \/ \E h \in starting : SceneFolderUploaded(h, FALSE)
    \/ \E u \in Users : captures < WebCaptures /\ OnButtonPress(u, "short")
    \/ \E c \in camera, requestId \in RequestIds :
          PhotoTaken(c, requestId, "image/jpeg")
    \/ \E i \in uploads : PhotoUploaded(i, TRUE)
    \/ \E i \in uploads : RowInserted(i, TRUE)
    \/ \E userId \in Users \cup {NoUser}, dbOk \in BOOLEAN, signOk \in BOOLEAN :
          LatestPhoto(userId, dbOk, signOk)
    \/ \E userId \in Users \cup {NoUser}, requestId \in RequestIds,
          dbOk \in BOOLEAN :
          Cardinality(fetching) < MaxFetches /\ PhotoById(userId, requestId, dbOk)
    \/ \E f \in fetching, ok \in BOOLEAN : PhotoDownloaded(f, ok)

SpecWeb == Init /\ [][NextWeb]_vars

\* SpecLatest: one user records while the clock runs, and the webview asks
\* for the latest photo
NextLatest ==
    \/ \E u \in Wearers : OnSession(u)
    \/ \E u \in Wearers :
          OneStart(u, StartUtterance(0, <<WLab>>, <<WKnife>>))
          /\ OnTranscription(u, StartUtterance(0, <<WLab>>, <<WKnife>>), TRUE)
    \/ \E h \in starting : SceneFolderUploaded(h, FALSE)
    \/ \E u \in Wearers : captures < LatestCaptures /\ OnButtonPress(u, "short")
    \/ \E u \in Wearers : captures < LatestCaptures /\ TimedCapture(u)
    \/ \E c \in camera : PhotoTaken(c, UniqueId(c), "image/png")
    \/ \E i \in uploads : PhotoUploaded(i, TRUE)
    \/ \E i \in uploads, ok \in BOOLEAN : RowInserted(i, ok)
    \/ \E userId \in Wearers \cup {NoUser}, dbOk \in BOOLEAN,
          signOk \in BOOLEAN : LatestPhoto(userId, dbOk, signOk)
    \/ ClockBelow(LatestTicks) /\ Advance(PollInterval)

SpecLatest == Init /\ [][NextLatest]_vars

\* SpecInterp: one user speaks the start grammar
NextInterp ==
    \/ \E u \in Wearers : OnSession(u)
    \/ \E u \in Wearers, utt \in GrammarUtterances \cup {StopUtterance} :
          OneStart(u, utt) /\ OnTranscription(u, utt, TRUE)
    \/ \E h \in starting, ok \in BOOLEAN : SceneFolderUploaded(h, ok)
    \/ \E h \in starting : SceneFolderRemoved(h, TRUE)

SpecInterp == Init /\ [][NextInterp]_vars

(***************************************************************************)
(* Properties                                                              *)
(***************************************************************************)
\* the user has no recording setup, or one without a scene or an object
NoSceneOrObject(u) ==
    \/ u \notin DOMAIN recordingSetup
    \/ recordingSetup[u].scene = ""
    \/ recordingSetup[u].object = ""

\* scene/object/requestId.ext, ext = jpg for image/jpeg and png otherwise
LabelledPath(scene, object, requestId, mimeType) ==
    scene \o "/" \o object \o "/" \o requestId
        \o (IF mimeType = "image/jpeg" THEN ".jpg" ELSE ".png")

\* C1: in every reachable state, a user who is streaming has a recording
\* setup whose step is ready and whose scene and object are set.
C1_StreamingImpliesReady ==
    \A u \in Users :
        Streaming(u) =>
            /\ u \in DOMAIN recordingSetup
            /\ recordingSetup[u].step = "ready"
            /\ recordingSetup[u].scene # ""
            /\ recordingSetup[u].object # ""

\* C2: a cachePhoto run that finds no recording setup, or one without scene
\* or object, starts no upload and changes neither the bucket nor the table.
C2_NoSetupNoWrites ==
    [][(ev'.op = "photo" /\ NoSceneOrObject(ev'.user)) =>
          /\ uploads' = uploads
          /\ storage' = storage
          /\ table' = table
          /\ ev'.calls \cap {"storage.upload", "table.insert"} = {}]_vars

\* C2 witness: a photo has just come back for a user without scene and
\* object, and nothing is being uploaded or stored.
C2_Witness ==
    /\ ev.op = "photo"
    /\ NoSceneOrObject(ev.user)
    /\ uploads = {}
    /\ table = <<>>

\* C3: a start command heard while the user is streaming changes neither the
\* session state nor the handlers waiting for a scene folder, and asks the
\* bucket for nothing.
C3_StartWhileStreaming ==
    [][(/\ ev'.op = "onTranscription"
        /\ ev'.arg = "start"
        /\ ev'.user \in DOMAIN isStreamingPhotos
        /\ isStreamingPhotos[ev'.user]) =>
          /\ UNCHANGED <<isStreamingPhotos, nextPhotoTime, recordingSetup>>
          /\ UNCHANGED <<starting, storage>>
          /\ "storage.upload" \notin ev'.calls]_vars

\* C3 witness: a start command has just been refused: the user streams with
\* a setup, and no handler waits for a scene folder.
C3_Witness ==
    /\ ev.op = "onTranscription"
    /\ ev.arg = "start"
    /\ Streaming(ev.user)
    /\ ~NoSceneOrObject(ev.user)
    /\ starting = {}

\* C4: a stop command heard while the user is not streaming changes nothing
\* of the session state.
C4_StopWhileIdle ==
    [][(/\ ev'.op = "onTranscription"
        /\ ev'.arg = "stop"
        /\ ~(ev'.user \in DOMAIN isStreamingPhotos
             /\ isStreamingPhotos[ev'.user])) =>
          UNCHANGED <<isStreamingPhotos, nextPhotoTime, recordingSetup>>]_vars

\* C4 witness: a stop command has just been refused: the user does not
\* stream and still has a next photo time.
C4_Witness ==
    /\ ev.op = "onTranscription"
    /\ ev.arg = "stop"
    /\ ~Streaming(ev.user)
    /\ ev.user \in DOMAIN nextPhotoTime

\* C5: the upload cachePhoto starts goes to scene/object/requestId.ext of
\* the user's recording setup, the blob is written at that path, and the row
\* inserted carries that path, with ext = jpg exactly for image/jpeg.
C5_LabelledPaths ==
    [][/\ \A i \in uploads' \ uploads :
            i.stage = "upload" =>
               /\ ev'.op = "photo"
               /\ i.userId = ev'.user
               /\ i.objectPath =
                      LabelledPath(recordingSetup[i.userId].scene,
                                   recordingSetup[i.userId].object,
                                   i.photo.requestId, i.photo.mimeType)
       /\ \A p \in DOMAIN storage' :
            (ev'.op = "uploaded"
             /\ (p \notin DOMAIN storage \/ storage'[p] # storage[p])) =>
               \E i \in uploads :
                  /\ i.stage = "upload"
                  /\ p = LabelledPath(i.scene, i.object, i.photo.requestId,
                                      i.photo.mimeType)
                  /\ storage'[p].bytes = i.photo.buffer
       /\ Len(table') > Len(table) =>
            LET row == table'[Len(table')]
            IN  /\ row.path = LabelledPath(row.scene, row.object,
                                           row.request_id, row.mime_type)
                /\ \E i \in uploads :
                      /\ i.stage = "insert"
                      /\ i.objectPath = row.path
                      /\ i.userId = row.user_id
                /\ row.path \in DOMAIN storage]_vars

\* C5 witness: after "start recording for scene lab for object knife" a png
\* photo of request r1 is stored and recorded at lab/knife/r1.png.
C5_Witness ==
    /\ Len(table) > 0
    /\ table[1].mime_type = "image/png"
    /\ table[1].path = "lab/knife/r1.png"
    /\ "lab/knife/r1.png" \in DOMAIN storage

\* C6: while timed captures keep failing, the next photo time stays 30 s
\* after the last timed request, and no timed request is issued less than
\* 30 s after the one before it.
C6_FailedCapturesSpaced ==
    /\ [](\A u \in Users :
            lastTimed[u] # 0 =>
               /\ u \in DOMAIN nextPhotoTime
               /\ nextPhotoTime[u] = lastTimed[u] + 30000)
    /\ [][\A u \in Users :
            (ev'.op = "timedCapture" /\ ev'.user = u /\ lastTimed[u] # 0) =>
               now - lastTimed[u] >= 30000]_vars

\* C6 witness: a timed capture has failed, the user still streams, and more
\* than 30 s have passed since its request: the loop may ask again.
C6_Witness ==
    \E u \in Users :
        /\ lastTimed[u] # 0
        /\ camera = {}
        /\ captures = 1
        /\ Streaming(u)
        /\ now > lastTimed[u] + 30000

\* C7: the bytes /api/photo/:requestId sends to a user are those of a photo
\* taken in that user's session.
C7_OwnPhotoOnly ==
    (ev.op = "photoSent" /\ ev.status = 200) => ev.body.bytes.owner = ev.user

\* C8: a request without authenticated user is answered 401, and neither the
\* table nor the bucket is asked anything for it.
C8_Unauthorized ==
    /\ (ev.op \in {"latestPhoto", "photoById"} /\ ev.user = "anonymous") =>
          (ev.status = 401 /\ ev.calls = {})
    /\ \A f \in fetching : f.userId # "anonymous"

\* C8 witness: /api/photo/:requestId has just been asked without a user while
\* the table holds a row.
C8_Witness ==
    /\ ev.op = "photoById"
    /\ ev.user = "anonymous"
    /\ ev.status = 401
    /\ Len(table) > 0

\* C9: when the query and the signing succeed, /api/latest-photo answers 404
\* exactly when the table holds no row of the user, and otherwise answers
\* with the request id and time of a row of the user that no other row of
\* the user exceeds in captured_at.
C9_LatestByCaptureTime ==
    (ev.op = "latestPhoto" /\ ev.user # "anonymous") =>
        LET mine == {k \in 1..Len(table) : table[k].user_id = ev.user}
        IN  /\ ev.status \in {200, 404, 500}
            /\ ev.status = 404 => mine = {}
            /\ (mine = {} /\ ev.status # 500) => ev.status = 404
            /\ ev.status = 200 =>
                 \E k \in mine :
                    /\ ev.body.requestId = table[k].request_id
                    /\ ev.body.timestamp = table[k].captured_at
                    /\ \A j \in mine :
                          table[j].captured_at <= table[k].captured_at

\* C9 witness: the row captured last was inserted first, and
\* /api/latest-photo has just answered with it.
C9_Witness ==
    /\ ev.op = "latestPhoto"
    /\ ev.status = 200
    /\ Len(table) = 2
    /\ table[1].captured_at > table[2].captured_at
    /\ ev.body.requestId = table[1].request_id

\* C10: a final start utterance with scene S and object O, heard while the
\* user neither records nor starts to, starts a recording whose scene and
\* object are the words of S and of O joined by underscores.
C10_StartCarriesLabels ==
    [][\A u \in Wearers, utt \in GrammarUtterances :
          (/\ ~Streaming(u)
           /\ NotStarting(u)
           /\ OnTranscription(u, utt, TRUE)) =>
             \E h \in starting' :
                /\ h.user = u
                /\ h.scene = Str(Join(utt.scene, <<"_">>))
                /\ h.object = Str(Join(utt.object, <<"_">>))]_vars

\* C11: a timed capture request is issued only for a user whose session is
\* open: after onStop, none until the user's next onSession.
C11_NoCaptureAfterStop ==
    [][ev'.op = "timedCapture" => ev'.user \in active]_vars

\* C12: an interim transcription, whatever its text, changes neither the
\* session state of any user, nor the handlers waiting for a scene folder, nor
\* the bucket, nor the table.
C12_InterimIgnored ==
    [][\A u \in Users, utt \in Utterances :
          OnTranscription(u, utt, FALSE) =>
             /\ UNCHANGED <<isStreamingPhotos, nextPhotoTime, recordingSetup>>
             /\ UNCHANGED <<starting, uploads, storage, table>>
             /\ ev'.calls = {}]_vars

\* C12 witness: an interim fragment has just been heard while the user
\* records; the recording goes on.
C12_Witness ==
    /\ ev.op = "onTranscription"
    /\ ev.arg = "interim"
    /\ Streaming(ev.user)
    /\ ~NoSceneOrObject(ev.user)

\* C13: every row's path holds a blob; an upload that fails ends the run
\* with no row and no blob written; an insert that fails ends the run with
\* no row and the blob left in the bucket; a row is inserted only by a run
\* whose upload succeeded.
C13_RowsFollowUploads ==
    /\ [](\A k \in 1..Len(table) : table[k].path \in DOMAIN storage)
    /\ [][\A i \in uploads :
            /\ PhotoUploaded(i, FALSE) =>
                  /\ uploads' = uploads \ {i}
                  /\ UNCHANGED <<storage, table>>
            /\ RowInserted(i, FALSE) =>
                  /\ uploads' = uploads \ {i}
                  /\ UNCHANGED <<storage, table>>
                  /\ i.objectPath \in DOMAIN storage']_vars
    /\ [][Len(table') > Len(table) =>
            \E i \in uploads :
               /\ i.stage = "insert"
               /\ i.objectPath = table'[Len(table')].path
               /\ i.objectPath \in DOMAIN storage]_vars

\* C13 witness: an insert has just failed: the table is empty and the photo
\* is in the bucket.
C13_Witness ==
    /\ ev.op = "insertError"
    /\ table = <<>>
    /\ uploads = {}
    /\ \E p \in DOMAIN storage : storage[p].bytes.owner = ev.user

\* C14: while the user streams, a timed request that has not succeeded is
\* followed by a further timed request once the clock has passed its
\* fallback time, whether the request failed or is still pending; and a
\* failed request changes nothing of the session state.
C14_LoopGoesOn ==
    /\ \A u \in Wearers :
          (/\ Streaming(u)
           /\ lastTimed[u] # 0
           /\ ev.op # "timedCapture"
           /\ captures < TimedCaptures
           /\ lastTimed[u] + 30000 + 1000 <= (LongTicks + 1) * 1000)
          ~> (\/ ev.op = "timedCapture" /\ ev.user = u
              \/ ~Streaming(u)
              \/ lastTimed[u] = 0)
    /\ [][\A c \in camera :
            PhotoFailed(c) =>
               UNCHANGED <<isStreamingPhotos, nextPhotoTime, recordingSetup,
                           active, timers>>]_vars

\* C14 witness: the first timed request never returned, and more than 30 s
\* later the loop has just issued a second one.
C14_Witness ==
    /\ ev.op = "timedCapture"
    /\ Cardinality(camera) = 2
    /\ \A c \in camera : c.timed /\ c.user = ev.user
    /\ now > 30000

\* C15: a short press issues exactly one camera request, whatever the
\* streaming flag and the next photo time are, and neither the press nor the
\* success or the failure of its request changes the session state.
C15_ShortPress ==
    /\ [](\A u \in active : ENABLED OnButtonPress(u, "short"))
    /\ [][\A u \in Users :
            OnButtonPress(u, "short") =>
               /\ captures' = captures + 1
               /\ \E c \in camera' :
                     /\ c \notin camera
                     /\ camera' = camera \cup {c}
                     /\ c.user = u
                     /\ ~c.timed
               /\ UNCHANGED <<isStreamingPhotos, nextPhotoTime,
                              recordingSetup>>]_vars
    /\ [][\A c \in camera :
            (~c.timed /\ (PhotoFailed(c)
                          \/ \E mimeType \in MimeTypes :
                                PhotoTaken(c, UniqueId(c), mimeType))) =>
               UNCHANGED <<isStreamingPhotos, nextPhotoTime,
                           recordingSetup>>]_vars

\* C15 witness: the photo of a short press has just come back while the user
\* streams without a next photo time; the user still streams without one.
C15_Witness ==
    /\ ev.op = "photo"
    /\ ev.arg = "manual"
    /\ Streaming(ev.user)
    /\ ev.user \notin DOMAIN nextPhotoTime

\* C16: a user whose session has ended (onStop ran, no onSession since) is
\* not streaming and has neither a next photo time nor a recording setup.
C16_EndedSessionCleared ==
    \A u \in Users :
        (timers[u] > 0 /\ u \notin active) =>
            /\ ~Streaming(u)
            /\ u \notin DOMAIN nextPhotoTime
            /\ u \notin DOMAIN recordingSetup

\* C17: a user has at most one capture loop while the session is open and
\* none otherwise.
C17_LoopBoundToSession ==
    \A u \in Users : timers[u] <= (IF u \in active THEN 1 ELSE 0)

\* C18: a start-recording handler writes the user's recording setup only
\* while the user is not streaming, so of two overlapping start commands at
\* most one takes effect.
C18_OneStartTakesEffect ==
    [][\A u \in Users :
          (/\ u \in DOMAIN isStreamingPhotos
           /\ isStreamingPhotos[u]
           /\ ev'.op = "startRecording"
           /\ ev'.user = u) =>
             /\ u \in DOMAIN recordingSetup
             /\ recordingSetup'[u] = recordingSetup[u]]_vars

\* C19: a long press negates the user's streaming flag, which is there to
\* negate, and changes nothing else: no camera request, the same next photo
\* time and recording setup.  Two long presses in a row therefore restore
\* the state before the first.
C19_LongPressFlips ==
    [][\A u \in Users :
          OnButtonPress(u, "long") =>
             /\ u \in DOMAIN isStreamingPhotos
             /\ isStreamingPhotos' =
                   [isStreamingPhotos EXCEPT ![u] = ~isStreamingPhotos[u]]
             /\ UNCHANGED <<nextPhotoTime, recordingSetup, camera, captures>>
             /\ UNCHANGED <<starting, uploads, storage, table>>
             /\ ev'.calls = {}]_vars

\* C19 witness: a long press has just switched streaming off for a user who
\* was recording; the recording setup and the next photo time are still there.
C19_Witness ==
    /\ ev.op = "onButtonPress"
    /\ ev.arg = "long"
    /\ ev.user \in DOMAIN isStreamingPhotos
    /\ ~isStreamingPhotos[ev.user]
    /\ ~NoSceneOrObject(ev.user)
    /\ ev.user \in DOMAIN nextPhotoTime

\* C20: the loop issues a timed request only for a user who streams and
\* whose next photo time, if there is one, has been reached; the step sets
\* the next photo time to now + 30 s and adds the one timed request.
C20_TimedCaptureEligible ==
    [][\A u \in Users :
          (ev'.op = "timedCapture" /\ ev'.user = u) =>
             /\ u \in DOMAIN isStreamingPhotos
             /\ isStreamingPhotos[u]
             /\ u \in DOMAIN nextPhotoTime => now >= nextPhotoTime[u]
             /\ nextPhotoTime' =
                   [x \in DOMAIN nextPhotoTime \cup {u} |->
                       IF x = u THEN now + 30000 ELSE nextPhotoTime[x]]
             /\ \E c \in camera' :
                   /\ c \notin camera
                   /\ camera' = camera \cup {c}
                   /\ c.user = u
                   /\ c.timed
             /\ UNCHANGED <<now, isStreamingPhotos>>]_vars

\* C20 witness: the loop has just issued a timed request after the clock
\* passed the user's next photo time.
C20_Witness ==
    /\ ev.op = "timedCapture"
    /\ now > 1000
    /\ captures = 2
    /\ ev.user \in DOMAIN nextPhotoTime
    /\ nextPhotoTime[ev.user] = now + 30000

\* C21: every row of the table is consistent with itself and with the bucket:
\* its path is <scene>/<object>/<requestId>.<ext> of its own scene, object,
\* request id and mime type, and it is the path the blob of its photo was
\* uploaded to, whatever became of the user's recording setup (replaced by a
\* start command, deleted by onStop) after cachePhoto read it.
C21_RowsConsistent ==
    /\ [](/\ \A k \in 1..Len(table) :
               /\ table[k].path =
                      LabelledPath(table[k].scene, table[k].object,
                                   table[k].request_id, table[k].mime_type)
               /\ Has(storage, table[k].path)
               /\ storage[table[k].path].contentType = table[k].mime_type
          /\ \A i \in uploads :
               i.objectPath = LabelledPath(i.scene, i.object,
                                           i.photo.requestId,
                                           i.photo.mimeType))
    /\ [][\A i \in uploads :
            RowInserted(i, TRUE) =>
               LET row == table'[Len(table')]
               IN  /\ Len(table') = Len(table) + 1
                   /\ row.scene = i.scene
                   /\ row.object = i.object
                   /\ row.path = i.objectPath
                   /\ storage'[row.path].bytes = i.photo.buffer
                   /\ UNCHANGED recordingSetup]_vars

\* C21 witness: a row has just been inserted for a user whose recording setup
\* now names another scene than the one the row and its path carry.
C21_Witness ==
    /\ ev.op = "inserted"
    /\ Len(table) > 0
    /\ table[Len(table)].user_id = ev.user
    /\ Has(recordingSetup, ev.user)
    /\ recordingSetup[ev.user].scene # ""
    /\ recordingSetup[ev.user].scene # table[Len(table)].scene
    /\ Has(storage, table[Len(table)].path)


=============================================================================
